---- MODULE Spec2Model ----
(***************************************************************************)
(* Model of soundmonitor27.py: the sampling / evaluation / notification    *)
(* loop of recordday, driven by main.  Time is counted in whole seconds    *)
(* since midnight of the day the process starts.                           *)
(***************************************************************************)
EXTENDS Integers, Sequences, FiniteSets, TLC

\* ---- bounds of the model ------------------------------------------------
MaxTicks == 3
MaxCycles == 2
MaxTicksE2E == 5
MaxTicksCfg == 4

\* ---- program constants --------------------------------------------------
MinInit == 1000000000
MaxInit == 0
BoundaryHour == 8
SecondsPerDay == 86400
SecondsPerHour == 3600
SecondsPerMinute == 60
Sentinel == 0 - 1

\* ---- input domains ------------------------------------------------------
Thresholds == {1000}
Periods == {20, 1800}
AlivePeriods == {<<1, "m">>, <<0, "d">>}
Emailtos == {<<"scb@localhost">>, <<"">>}
StartTimes == {28776}
MeanAbs == {0, 400, 1000, 1500}
ReturnCodes == {0, 1}
AcqTimes == {20, 40}
SendOutcomes == {"sent", "raise"}
BatStatus == {"nobattery", "Discharging", "Full"}
Kinds == {"warning", "alarm", "battery"}

VARIABLES pc, opts, now, until, levels, timestamps,
          lastwarningtime, lastalarmtime, lastbatterytime,
          minsoundlevel, maxsoundlevel,
          sent, saved, onbattery, notified, lastNotified, alarmticks,
          heartbeats, cycles, ticks

vars == <<pc, opts, now, until, levels, timestamps,
          lastwarningtime, lastalarmtime, lastbatterytime,
          minsoundlevel, maxsoundlevel,
          sent, saved, onbattery, notified, lastNotified, alarmticks,
          heartbeats, cycles, ticks>>

\* ---- pure functions -----------------------------------------------------

\* sendemail: "noop" when the first recipient is empty, otherwise the SMTP
\* outcome; indexing an empty recipient list raises.
sendemail(to, outcome) ==
    IF Len(to) = 0 THEN "raise"
    ELSE IF to[1] = "" THEN "noop"
    ELSE outcome

\* getsoundlevel: mean absolute value on success, -1 when arecord fails.
getsoundlevel(rc, meanabs) ==
    IF rc = 0 THEN meanabs ELSE Sentinel

\* latencyover with the waiting time left out of the comparison
latencyover_noperiod(o, t, lasttime) ==
    IF t - lasttime > 0 THEN TRUE ELSE FALSE

\* latencyover: strictly more than opts.period seconds since lasttime.
latencyover(o, t, lasttime) ==
    IF t - lasttime > o.period THEN TRUE ELSE FALSE

\* discharging: FALSE without a battery, else 'discharging' in lower(status).
discharging(status) ==
    IF status = "nobattery" THEN FALSE
    ELSE IF status = "Discharging" THEN TRUE ELSE FALSE

\* getattachments: the chart is saved under a name made of the current time
\* and the list holding that one file name is returned.
getattachments(t) == << <<t, "_sound.png">> >>

\* matplotlib.dates.date2num: the instant as a day number; the model keeps
\* the pair <<whole days, seconds into the day>>.
date2num(t) == <<t \div SecondsPerDay, t % SecondsPerDay>>

\* nextDeadline with the day-aligned deadline counted from t, not midnight
nextDeadline_fromnow(o, t) ==
    LET num == o.aliveperiod[1]
        unit == o.aliveperiod[2]
    IN  IF unit = "d"
        THEN t + num * SecondsPerDay + BoundaryHour * SecondsPerHour
        ELSE t + num * SecondsPerMinute

\* nextDeadline with the day count left out of the day-aligned deadline
nextDeadline_nodays(o, t) ==
    LET num == o.aliveperiod[1]
        unit == o.aliveperiod[2]
        todaymidnight == t - (t % SecondsPerDay)
    IN  IF unit = "d"
        THEN todaymidnight + BoundaryHour * SecondsPerHour
        ELSE t + num * SecondsPerMinute

\* nextDeadline with the day count taken one too small
nextDeadline_daybefore(o, t) ==
    LET num == o.aliveperiod[1]
        unit == o.aliveperiod[2]
        todaymidnight == t - (t % SecondsPerDay)
    IN  IF unit = "d"
        THEN todaymidnight + (num - 1) * SecondsPerDay
                           + BoundaryHour * SecondsPerHour
        ELSE t + num * SecondsPerMinute

\* main, lines 285-292: the deadline of the cycle that starts at t.
nextDeadline(o, t) ==
    LET num == o.aliveperiod[1]
        unit == o.aliveperiod[2]
        todaymidnight == t - (t % SecondsPerDay)
    IN  IF unit = "d"
        THEN todaymidnight + num * SecondsPerDay + BoundaryHour * SecondsPerHour
        ELSE t + num * SecondsPerMinute

\* ---- initial state ------------------------------------------------------
Init ==
    /\ pc = "start"
    /\ opts \in [threshold : Thresholds, period : Periods,
                 aliveperiod : AlivePeriods, emailto : Emailtos]
    /\ now \in IF opts.aliveperiod[2] = "d" THEN StartTimes ELSE {0}
    /\ until = 0
    /\ levels = <<>>
    /\ timestamps = <<>>
    /\ lastwarningtime = 0
    /\ lastalarmtime = 0
    /\ lastbatterytime = 0
    /\ minsoundlevel = MinInit
    /\ maxsoundlevel = MaxInit
    /\ sent = <<>>
    /\ saved = <<>>
    /\ onbattery = FALSE
    /\ notified = {}
    /\ lastNotified = [k \in Kinds |-> 0]
    /\ alarmticks = <<>>
    /\ heartbeats = 0
    /\ cycles = 0
    /\ ticks = 0

\* ---- actions ------------------------------------------------------------

\* Start with the chart attached to the 'monitor started' message
Start_attach(r) ==
    /\ pc = "start"
    /\ pc' = IF sendemail(opts.emailto, r) = "raise" THEN "crashed"
             ELSE "main"
    /\ sent' = <<[kind |-> "started", result |-> sendemail(opts.emailto, r),
                attachments |-> getattachments(now)]>>
    /\ saved' = <<>>
    /\ UNCHANGED <<opts, now, until, levels, timestamps, lastwarningtime,
                   lastalarmtime, lastbatterytime, minsoundlevel,
                   maxsoundlevel, onbattery, notified, lastNotified,
                   alarmticks, heartbeats, cycles, ticks>>

\* main, lines 264-283: build opts and send the 'monitor started' message.
Start(r) ==
    /\ pc = "start"
    /\ pc' = IF sendemail(opts.emailto, r) = "raise" THEN "crashed"
             ELSE "main"
    /\ sent' = <<[kind |-> "started", result |-> sendemail(opts.emailto, r),
                attachments |-> <<>>]>>
    /\ saved' = <<>>
    /\ UNCHANGED <<opts, now, until, levels, timestamps, lastwarningtime,
                   lastalarmtime, lastbatterytime, minsoundlevel,
                   maxsoundlevel, onbattery, notified, lastNotified,
                   alarmticks, heartbeats, cycles, ticks>>

\* BeginCycle with the extrema carried over from the cycle before
BeginCycle_keepextrema ==
    /\ pc = "main"
    /\ cycles < MaxCycles
    /\ pc' = "recording"
    /\ until' = nextDeadline(opts, now)
    /\ levels' = <<>>
    /\ timestamps' = <<>>
    /\ lastwarningtime' = now - opts.period
    /\ lastalarmtime' = now - opts.period
    /\ lastbatterytime' = now - opts.period
    /\ cycles' = cycles + 1
    /\ alarmticks' = <<>>
    /\ sent' = <<>>
    /\ saved' = <<>>
    /\ UNCHANGED <<opts, now, minsoundlevel, maxsoundlevel, onbattery, notified, lastNotified,
                   heartbeats, ticks>>

\* main, lines 284-293, and recordday, lines 186-196: compute the deadline
\* and enter recordday, which initialises its local state.
BeginCycle ==
    /\ pc = "main"
    /\ cycles < MaxCycles
    /\ pc' = "recording"
    /\ until' = nextDeadline(opts, now)
    /\ levels' = <<>>
    /\ timestamps' = <<>>
    /\ lastwarningtime' = now - opts.period
    /\ lastalarmtime' = now - opts.period
    /\ lastbatterytime' = now - opts.period
    /\ minsoundlevel' = MinInit
    /\ maxsoundlevel' = MaxInit
    /\ cycles' = cycles + 1
    /\ alarmticks' = <<>>
    /\ sent' = <<>>
    /\ saved' = <<>>
    /\ UNCHANGED <<opts, now, onbattery, notified, lastNotified,
                   heartbeats, ticks>>

\* Tick with the threshold itself counted as below the threshold
Tick_le(rc, meanabs, dAcq, status, r1, r2) ==
    /\ pc = "recording"
    /\ now < until
    /\ LET soundlevel == getsoundlevel(rc, meanabs)
           t1 == now + dAcq
           warn == (soundlevel < 0) /\ latencyover(opts, t1, lastwarningtime)
           alarm == ~warn /\ (0 < soundlevel /\ soundlevel <= opts.threshold)
                          /\ latencyover(opts, t1, lastalarmtime)
           s1 == IF warn \/ alarm THEN sendemail(opts.emailto, r1) ELSE "none"
           raise1 == s1 = "raise"
           lwt == IF warn /\ ~raise1 THEN t1 ELSE lastwarningtime
           lat == IF alarm /\ ~raise1 THEN t1 ELSE lastalarmtime
           bat == ~raise1 /\ discharging(status)
                          /\ latencyover(opts, t1, lastbatterytime)
           s2 == IF bat THEN sendemail(opts.emailto, r2) ELSE "none"
           raise2 == s2 = "raise"
           lbt == IF bat /\ ~raise2 THEN t1 ELSE lastbatterytime
           raised == raise1 \/ raise2
           newmin == ~raised /\ soundlevel < minsoundlevel
           newmax == ~raised /\ ~newmin /\ soundlevel > maxsoundlevel
           att == getattachments(t1)
           k1 == IF warn THEN <<[kind |-> "warning", result |-> s1,
                                 attachments |-> att]>>
                 ELSE IF alarm THEN <<[kind |-> "alarm", result |-> s1,
                                       attachments |-> att]>>
                 ELSE <<>>
           k2 == IF bat THEN <<[kind |-> "battery", result |-> s2,
                                attachments |-> att]>>
                 ELSE <<>>
       IN  /\ pc' = IF raised THEN "crashed" ELSE "recording"
           /\ now' = t1
           /\ levels' = Append(levels, soundlevel)
           /\ timestamps' = Append(timestamps, date2num(t1))
           /\ lastwarningtime' = lwt
           /\ lastalarmtime' = lat
           /\ lastbatterytime' = lbt
           /\ minsoundlevel' = IF newmin THEN soundlevel ELSE minsoundlevel
           /\ maxsoundlevel' = IF newmax THEN soundlevel ELSE maxsoundlevel
           /\ saved' = IF newmin THEN <<"min">>
                       ELSE IF newmax THEN <<"max">> ELSE <<>>
           /\ sent' = k1 \o k2
           /\ onbattery' = discharging(status)
           /\ notified' = notified \cup {k1[i].kind : i \in DOMAIN k1}
                                   \cup {k2[i].kind : i \in DOMAIN k2}
           /\ lastNotified' =
                [k \in Kinds |->
                   IF k = "warning" /\ warn THEN t1
                   ELSE IF k = "alarm" /\ alarm THEN t1
                   ELSE IF k = "battery" /\ bat THEN t1
                   ELSE lastNotified[k]]
           /\ alarmticks' = IF alarm THEN Append(alarmticks, Len(levels) + 1)
                            ELSE alarmticks
    /\ ticks' = ticks + 1
    /\ UNCHANGED <<opts, until, heartbeats, cycles>>

\* recordday, lines 197-252: one pass through the body of the while loop.
\*   rc, meanabs : exit status of arecord and the mean absolute amplitude
\*   dAcq        : seconds the acquisition takes
\*   status      : POWER_SUPPLY_STATUS of the battery
\*   r1          : SMTP outcome of the warning/alarm message
\*   r2          : SMTP outcome of the battery message
\* Delivery completes within the second in which it starts, so every
\* datetime.now() read after the acquisition returns t1.
Tick(rc, meanabs, dAcq, status, r1, r2) ==
    /\ pc = "recording"
    /\ now < until
    /\ LET soundlevel == getsoundlevel(rc, meanabs)
           t1 == now + dAcq
           warn == (soundlevel < 0) /\ latencyover(opts, t1, lastwarningtime)
           alarm == ~warn /\ (0 < soundlevel /\ soundlevel < opts.threshold)
                          /\ latencyover(opts, t1, lastalarmtime)
           s1 == IF warn \/ alarm THEN sendemail(opts.emailto, r1) ELSE "none"
           raise1 == s1 = "raise"
           lwt == IF warn /\ ~raise1 THEN t1 ELSE lastwarningtime
           lat == IF alarm /\ ~raise1 THEN t1 ELSE lastalarmtime
           bat == ~raise1 /\ discharging(status)
                          /\ latencyover(opts, t1, lastbatterytime)
           s2 == IF bat THEN sendemail(opts.emailto, r2) ELSE "none"
           raise2 == s2 = "raise"
           lbt == IF bat /\ ~raise2 THEN t1 ELSE lastbatterytime
           raised == raise1 \/ raise2
           newmin == ~raised /\ soundlevel < minsoundlevel
           newmax == ~raised /\ ~newmin /\ soundlevel > maxsoundlevel
           att == getattachments(t1)
           k1 == IF warn THEN <<[kind |-> "warning", result |-> s1,
                                 attachments |-> att]>>
                 ELSE IF alarm THEN <<[kind |-> "alarm", result |-> s1,
                                       attachments |-> att]>>
                 ELSE <<>>
           k2 == IF bat THEN <<[kind |-> "battery", result |-> s2,
                                attachments |-> att]>>
                 ELSE <<>>
       IN  /\ pc' = IF raised THEN "crashed" ELSE "recording"
           /\ now' = t1
           /\ levels' = Append(levels, soundlevel)
           /\ timestamps' = Append(timestamps, date2num(t1))
           /\ lastwarningtime' = lwt
           /\ lastalarmtime' = lat
           /\ lastbatterytime' = lbt
           /\ minsoundlevel' = IF newmin THEN soundlevel ELSE minsoundlevel
           /\ maxsoundlevel' = IF newmax THEN soundlevel ELSE maxsoundlevel
           /\ saved' = IF newmin THEN <<"min">>
                       ELSE IF newmax THEN <<"max">> ELSE <<>>
           /\ sent' = k1 \o k2
           /\ onbattery' = discharging(status)
           /\ notified' = notified \cup {k1[i].kind : i \in DOMAIN k1}
                                   \cup {k2[i].kind : i \in DOMAIN k2}
           /\ lastNotified' =
                [k \in Kinds |->
                   IF k = "warning" /\ warn THEN t1
                   ELSE IF k = "alarm" /\ alarm THEN t1
                   ELSE IF k = "battery" /\ bat THEN t1
                   ELSE lastNotified[k]]
           /\ alarmticks' = IF alarm THEN Append(alarmticks, Len(levels) + 1)
                            ELSE alarmticks
    /\ ticks' = ticks + 1
    /\ UNCHANGED <<opts, until, heartbeats, cycles>>

\* EndCycle of a main without its endless loop: the process ends after the
\* first daily message
EndCycle_exit(r) ==
    /\ pc = "recording"
    /\ ~(now < until)
    /\ pc' = "crashed"
    /\ sent' = <<[kind |-> "daily", result |-> sendemail(opts.emailto, r),
                attachments |-> getattachments(now)]>>
    /\ saved' = <<>>
    /\ heartbeats' = heartbeats + 1
    /\ UNCHANGED <<opts, now, until, levels, timestamps, lastwarningtime,
                   lastalarmtime, lastbatterytime, minsoundlevel,
                   maxsoundlevel, onbattery, notified, lastNotified,
                   alarmticks, cycles, ticks>>

\* EndCycle with the daily message put behind the alarm cool-down
EndCycle_gated(r) ==
    /\ pc = "recording"
    /\ ~(now < until)
    /\ LET go == latencyover(opts, now, lastalarmtime)
       IN  /\ pc' = IF go /\ sendemail(opts.emailto, r) = "raise"
                    THEN "crashed" ELSE "main"
           /\ sent' = IF go
                      THEN <<[kind |-> "daily",
                              result |-> sendemail(opts.emailto, r),
                              attachments |-> getattachments(now)]>>
                      ELSE <<>>
           /\ heartbeats' = IF go THEN heartbeats + 1 ELSE heartbeats
    /\ saved' = <<>>
    /\ UNCHANGED <<opts, now, until, levels, timestamps, lastwarningtime,
                   lastalarmtime, lastbatterytime, minsoundlevel,
                   maxsoundlevel, onbattery, notified, lastNotified,
                   alarmticks, cycles, ticks>>

\* recordday, lines 197 and 254-261: the loop condition fails, the 'daily
\* message' is sent and recordday returns to main.
EndCycle(r) ==
    /\ pc = "recording"
    /\ ~(now < until)
    /\ pc' = IF sendemail(opts.emailto, r) = "raise" THEN "crashed"
             ELSE "main"
    /\ sent' = <<[kind |-> "daily", result |-> sendemail(opts.emailto, r),
                attachments |-> getattachments(now)]>>
    /\ saved' = <<>>
    /\ heartbeats' = heartbeats + 1
    /\ UNCHANGED <<opts, now, until, levels, timestamps, lastwarningtime,
                   lastalarmtime, lastbatterytime, minsoundlevel,
                   maxsoundlevel, onbattery, notified, lastNotified,
                   alarmticks, cycles, ticks>>

\* one pass of the loop with inputs from the general domains
Sample ==
    /\ ticks < MaxTicks
    /\ \E rc \in ReturnCodes, meanabs \in MeanAbs, dAcq \in AcqTimes,
          status \in BatStatus, r1 \in SendOutcomes, r2 \in SendOutcomes :
          Tick(rc, meanabs, dAcq, status, r1, r2)

Boot == \E r \in SendOutcomes : Start(r)

Heartbeat == \E r \in SendOutcomes : EndCycle(r)

Next ==
    \/ Boot
    \/ BeginCycle
    \/ Sample
    \/ Heartbeat

Spec == Init /\ [][Next]_vars

\* ---- the end-to-end scenario: default threshold and cool-down, a 60 s
\* ---- cadence, every acquisition succeeds and takes 12 s ------------------
E2EOpts == [threshold |-> 1000, period |-> 1800, aliveperiod |-> <<1, "m">>,
            emailto |-> <<"scb@localhost">>]
E2EMeanAbs == {400, 1500}
E2EAcqTimes == {12}

InitE2E == Init /\ opts = E2EOpts

\* one pass of the loop with the inputs of the scenario
SampleE2E ==
    /\ ticks < MaxTicksE2E
    /\ \E meanabs \in E2EMeanAbs, dAcq \in E2EAcqTimes,
          status \in BatStatus, r1 \in SendOutcomes, r2 \in SendOutcomes :
          Tick(0, meanabs, dAcq, status, r1, r2)

NextE2E ==
    \/ Boot
    \/ BeginCycle
    \/ SampleE2E
    \/ Heartbeat

SpecE2E == InitE2E /\ [][NextE2E]_vars

TypeOK ==
    /\ pc \in {"start", "main", "recording", "crashed"}
    /\ Len(levels) = Len(timestamps)
    /\ heartbeats \in 0..MaxCycles
    /\ ticks \in 0..(MaxTicks + MaxTicksE2E)

\* ---- the configuration surface: every cadence unit, day counts 0..2,
\* ---- start times around the 08:00 boundary, an empty recipient list and
\* ---- a threshold of 0; acquisitions of one second, eight hours, one day ---
CfgThresholds == {0, 1000}
CfgPeriods == {1800}
CfgAlivePeriods == {<<0, "m">>, <<1, "m">>, <<0, "d">>, <<1, "d">>, <<2, "d">>}
CfgEmailtos == {<<>>, <<"">>, <<"scb@localhost">>}
CfgStartTimes == {0, 28799, 28800, 28801}
CfgAcqTimes == {1, 28800, 86400}
CfgMeanAbs == {400}

\* the state of a process that has not run yet, whatever its options
Fresh ==
    /\ pc = "start"
    /\ until = 0
    /\ levels = <<>>
    /\ timestamps = <<>>
    /\ lastwarningtime = 0
    /\ lastalarmtime = 0
    /\ lastbatterytime = 0
    /\ minsoundlevel = MinInit
    /\ maxsoundlevel = MaxInit
    /\ sent = <<>>
    /\ saved = <<>>
    /\ onbattery = FALSE
    /\ notified = {}
    /\ lastNotified = [k \in Kinds |-> 0]
    /\ alarmticks = <<>>
    /\ heartbeats = 0
    /\ cycles = 0
    /\ ticks = 0

InitCfg ==
    /\ opts \in [threshold : CfgThresholds, period : CfgPeriods,
                 aliveperiod : CfgAlivePeriods, emailto : CfgEmailtos]
    /\ now \in CfgStartTimes
    /\ Fresh

\* one pass of the loop with a successful acquisition of any length
SampleCfg ==
    /\ ticks < MaxTicksCfg
    /\ \E meanabs \in CfgMeanAbs, dAcq \in CfgAcqTimes,
          r1 \in SendOutcomes, r2 \in SendOutcomes :
          Tick(0, meanabs, dAcq, "Full", r1, r2)

NextCfg ==
    \/ Boot
    \/ BeginCycle
    \/ SampleCfg
    \/ Heartbeat

SpecCfg == InitCfg /\ [][NextCfg]_vars

\* ---- the endless run: every delivery returns and every acquisition takes
\* ---- a positive time.  The code compares only differences of instants
\* ---- (now - lasttime, now < until) and, for the unit 'd', the time of
\* ---- day, so each cycle start moves the origin of the clock (to the
\* ---- cycle start for 'm', to today's midnight for 'd') and restarts the
\* ---- bookkeeping counters; this keeps the endless run finite-state -------
LiveAlivePeriods == {<<0, "m">>, <<1, "m">>, <<1, "d">>}
LiveOutcomes == {"sent"}
LiveMeanAbs == {400, 1500}

\* acquisition lengths on the scale of the cadence
LiveAcqTimes(o) ==
    IF o.aliveperiod[2] = "d" THEN {43200, 86400} ELSE {20, 40}

InitLive ==
    /\ opts \in [threshold : Thresholds, period : Periods,
                 aliveperiod : LiveAlivePeriods, emailto : Emailtos]
    /\ now \in IF opts.aliveperiod[2] = "d" THEN StartTimes ELSE {0}
    /\ Fresh

\* main, lines 284-293, and recordday, lines 186-196, read on a clock whose
\* origin is moved by `shift` seconds
BeginCycleLive ==
    /\ pc = "main"
    /\ LET shift == IF opts.aliveperiod[2] = "d"
                    THEN now - (now % SecondsPerDay) ELSE now
       IN  /\ now' = now - shift
           /\ until' = nextDeadline(opts, now) - shift
           /\ lastwarningtime' = now - opts.period - shift
           /\ lastalarmtime' = now - opts.period - shift
           /\ lastbatterytime' = now - opts.period - shift
    /\ pc' = "recording"
    /\ levels' = <<>>
    /\ timestamps' = <<>>
    /\ minsoundlevel' = MinInit
    /\ maxsoundlevel' = MaxInit
    /\ cycles' = IF cycles < MaxCycles THEN cycles + 1 ELSE cycles
    /\ heartbeats' = 0
    /\ ticks' = 0
    /\ notified' = {}
    /\ lastNotified' = [k \in Kinds |-> 0]
    /\ alarmticks' = <<>>
    /\ sent' = <<>>
    /\ saved' = <<>>
    /\ UNCHANGED <<opts, onbattery>>

BootLive == \E r \in LiveOutcomes : Start(r)

\* one pass of the loop; every delivery returns
SampleLive ==
    \E rc \in ReturnCodes, meanabs \in LiveMeanAbs,
       dAcq \in LiveAcqTimes(opts),
       status \in BatStatus, r1 \in LiveOutcomes, r2 \in LiveOutcomes :
       Tick(rc, meanabs, dAcq, status, r1, r2)

HeartbeatLive == \E r \in LiveOutcomes : EndCycle(r)

NextLive ==
    \/ BootLive
    \/ BeginCycleLive
    \/ SampleLive
    \/ HeartbeatLive

\* the process is single-threaded and never waits for anything but its own
\* acquisitions and deliveries: whenever it can take a step it does
SpecLive == InitLive /\ [][NextLive]_vars /\ WF_vars(NextLive)

\* ---- vocabulary of the properties ---------------------------------------
Last(q) == q[Len(q)]

\* the instant a date2num value stands for
num2date(p) == p[1] * SecondsPerDay + p[2]

\* the kinds of message handed to sendemail in the step that just ended
Dispatched(q) == {q[i].kind : i \in DOMAIN q}

\* the artifacts savesound wrote in the step that just ended
Captured(q) == {q[i] : i \in DOMAIN q}

\* the step is one pass through the loop body of recordday
IsTick == ticks' = ticks + 1

\* the instant at which the pass just ended read the clock
TickTime == num2date(Last(timestamps'))

\* the process-wide cool-down of kind k is open at instant t
CoolDownOpen(k, t) ==
    (k \notin notified) \/ (t - lastNotified[k] > opts.period)

\* the levels of the cycle that are not the failure sentinel
Valid(q) == {q[i] : i \in {j \in DOMAIN q : q[j] >= 0}}

\* C1: in every tick with 0 <= level < threshold (0 included) an alarm is
\* dispatched iff no alarm was dispatched before or more than opts.period
\* seconds have passed since the last one.
C1_AlarmIffCoolDownOpen ==
    [][ (IsTick /\ 0 <= Last(levels') /\ Last(levels') < opts.threshold)
          => (("alarm" \in Dispatched(sent'))
                <=> CoolDownOpen("alarm", TickTime)) ]_vars

\* C2: for each condition kind, two consecutive dispatches of that kind,
\* in the same cycle or in different cycles, are more than opts.period
\* seconds apart.
C2_SameKindDebounced ==
    [][ \A k \in Kinds :
          (IsTick /\ k \in Dispatched(sent') /\ k \in notified)
            => lastNotified'[k] - lastNotified[k] > opts.period ]_vars

\* C3: the cycle rollover (main starts the next recordday after a heartbeat)
\* leaves lastwarningtime, lastalarmtime and lastbatterytime unchanged.
C3_RolloverKeepsTimestamps ==
    [][ (pc = "main" /\ pc' = "recording" /\ cycles >= 1)
          => UNCHANGED <<lastwarningtime, lastalarmtime, lastbatterytime>>
      ]_vars

\* C4: when the delivery of a warning, alarm or battery message fails, the
\* last-notified timestamp of that condition is set to the time of the
\* attempt and the loop goes on with the next tick.
C4_FailedDeliveryStillMarks ==
    [][ IsTick =>
          \A i \in DOMAIN sent' :
             sent'[i].result = "raise" =>
                /\ pc' = "recording"
                /\ sent'[i].kind = "warning" => lastwarningtime' = TickTime
                /\ sent'[i].kind = "alarm" => lastalarmtime' = TickTime
                /\ sent'[i].kind = "battery" => lastbatterytime' = TickTime
      ]_vars

\* C5: a failed acquisition is the sample -1: it is appended to the series,
\* a warning is dispatched iff the acquisition-failure cool-down is open, no
\* alarm is dispatched, and the loop proceeds to the next tick.
C5_SentinelIsOrdinarySample ==
    [][ (IsTick /\ Last(levels') < 0) =>
          /\ levels' = Append(levels, Sentinel)
          /\ ("warning" \in Dispatched(sent'))
                <=> latencyover(opts, TickTime, lastwarningtime)
          /\ "alarm" \notin Dispatched(sent')
          /\ pc' = "recording" ]_vars

\* C6: the on-battery check runs in every tick: when the machine is on
\* battery and the battery cool-down is open the battery message is
\* dispatched, whatever the level and whatever happened to the warning or
\* alarm of the same tick; a warning or alarm due in the same tick is
\* dispatched as well.
C6_KindsIndependent ==
    [][ (IsTick /\ onbattery'
           /\ latencyover(opts, TickTime, lastbatterytime)) =>
          /\ "battery" \in Dispatched(sent')
          /\ (Last(levels') < 0
                /\ latencyover(opts, TickTime, lastwarningtime))
               => "warning" \in Dispatched(sent')
          /\ (0 < Last(levels') /\ Last(levels') < opts.threshold
                /\ latencyover(opts, TickTime, lastalarmtime))
               => "alarm" \in Dispatched(sent') ]_vars

\* C7: in a tick that samples a valid level, 'min' is captured iff the level
\* is strictly below every earlier valid level of the cycle and 'max' iff it
\* is strictly above every earlier valid level (the first valid sample
\* triggers both).
C7_CapturesAtStrictExtrema ==
    [][ (IsTick /\ pc' = "recording" /\ Last(levels') >= 0) =>
          /\ ("min" \in Captured(saved'))
                <=> \A e \in Valid(levels) : Last(levels') < e
          /\ ("max" \in Captured(saved'))
                <=> \A e \in Valid(levels) : Last(levels') > e ]_vars

\* C8: a tick whose level is the sentinel -1 leaves minsoundlevel and
\* maxsoundlevel unchanged and captures no artifact.
C8_SentinelOutsideExtrema ==
    [][ (IsTick /\ pc' = "recording" /\ Last(levels') = Sentinel) =>
          /\ UNCHANGED <<minsoundlevel, maxsoundlevel>>
          /\ saved' = <<>> ]_vars

\* C9: every cycle ends in exactly one heartbeat: the number of heartbeats
\* equals the number of cycles that have ended; a pass that finds
\* now >= until sends the daily message whatever the cool-downs and whatever
\* was notified during the cycle; and the daily message is sent by no
\* other step.
C9_HeartbeatOncePerCycle ==
    /\ [](/\ pc \in {"start", "main"} => heartbeats = cycles
          /\ pc = "recording" => heartbeats = cycles - 1
          /\ pc = "crashed" =>
                heartbeats \in {h \in {cycles - 1, cycles} : h >= 0})
    /\ [][ /\ (pc = "recording" /\ ~(now < until)) =>
                /\ Len(sent') = 1
                /\ Dispatched(sent') = {"daily"}
                /\ heartbeats' = heartbeats + 1
           /\ (heartbeats' # heartbeats \/ "daily" \in Dispatched(sent')) =>
                /\ pc = "recording"
                /\ now >= until
                /\ Len(sent') = 1
                /\ Dispatched(sent') = {"daily"}
                /\ heartbeats' = heartbeats + 1 ]_vars

\* a heartbeat has gone out at the end of a cycle in which an alarm and a
\* battery message were dispatched and the alarm cool-down is still running
C9_Witness ==
    /\ pc = "main"
    /\ heartbeats >= 1
    /\ Dispatched(sent) = {"daily"}
    /\ alarmticks # <<>>
    /\ "battery" \in notified
    /\ ~latencyover(opts, now, lastalarmtime)

E2EFeed == <<1500, 1500, 400, 400, 400>>

IsPrefix(p, q) == Len(p) <= Len(q) /\ p = SubSeq(q, 1, Len(p))

\* the first cycle has been fed a prefix of the scenario's levels, one every
\* 12 seconds
E2ERunning ==
    /\ opts = E2EOpts
    /\ cycles = 1
    /\ IsPrefix(levels, E2EFeed)
    /\ \A i \in DOMAIN timestamps : num2date(timestamps[i]) = 12 * i

\* C10: in the scenario the only alarm of the cycle is dispatched at the
\* third tick (the first level below the threshold), no heartbeat is sent
\* before the fifth tick has brought the clock to the 60 s deadline, and
\* exactly one is sent then.
C10_EndToEnd ==
    E2ERunning =>
       /\ alarmticks = IF Len(levels) >= 3 THEN <<3>> ELSE <<>>
       /\ Len(levels) < 5 => (now < until /\ heartbeats = 0)
       /\ Len(levels) = 5 =>
             /\ now >= until
             /\ heartbeats <= 1
             /\ pc = "main" => heartbeats = 1
             /\ heartbeats = 1 => Dispatched(sent) = {"daily"}

\* the whole feed has been consumed and the heartbeat has gone out
C10_Witness ==
    /\ E2ERunning
    /\ levels = E2EFeed
    /\ pc = "main"
    /\ alarmticks = <<3>>
    /\ heartbeats = 1

\* the smallest and the largest element of a non-empty set of numbers
SetMin(S) == CHOOSE x \in S : \A y \in S : x <= y
SetMax(S) == CHOOSE x \in S : \A y \in S : x >= y

\* C11: a tick that samples a level >= threshold dispatches no alarm,
\* whatever the state of the alarm cool-down.
C11_NoAlarmAtOrAboveThreshold ==
    [][ (IsTick /\ Last(levels') >= opts.threshold)
          => "alarm" \notin Dispatched(sent') ]_vars

\* a level equal to the threshold has just been sampled with the alarm
\* cool-down open before and after the tick
C11_Witness ==
    /\ pc = "recording"
    /\ levels # <<>>
    /\ Last(levels) = opts.threshold
    /\ latencyover(opts, now, lastalarmtime)
    /\ sent = <<>>

\* C13: the 'monitor started' message is dispatched exactly by the first
\* step of the process, with no attachments, before any sample, cycle or
\* other notification; the process never returns to its start.
C13_StartedOnceFirst ==
    /\ [][ /\ pc = "start" =>
                /\ Len(sent') = 1
                /\ sent'[1].kind = "started"
                /\ sent'[1].attachments = <<>>
           /\ "started" \in Dispatched(sent') =>
                /\ pc = "start"
                /\ Len(levels) = 0 /\ ticks = 0 /\ cycles = 0
                /\ heartbeats = 0 /\ notified = {}
           /\ pc # "start" => pc' # "start" ]_vars
    /\ [](pc = "start" => (sent = <<>> /\ ticks = 0 /\ heartbeats = 0))

\* the started message has just been handed to sendemail, nothing else yet
C13_Witness ==
    /\ pc = "main"
    /\ cycles = 0
    /\ Len(sent) = 1
    /\ sent[1].kind = "started"
    /\ sent[1].result = "sent"
    /\ sent[1].attachments = <<>>

\* C16: once the cycle has seen a valid level, minsoundlevel is the minimum
\* and maxsoundlevel the maximum of the valid levels of the cycle.
C16_ExtremaTrackValidLevels ==
    (pc = "recording" /\ Valid(levels) # {}) =>
       /\ minsoundlevel = SetMin(Valid(levels))
       /\ maxsoundlevel = SetMax(Valid(levels))

\* C17: the step that starts a cycle sets minsoundlevel to 1e9,
\* maxsoundlevel to 0 and the series of levels and timestamps to empty.
C17_CycleStartResets ==
    [][ (pc = "main" /\ pc' = "recording") =>
          /\ minsoundlevel' = MinInit
          /\ maxsoundlevel' = MaxInit
          /\ levels' = <<>>
          /\ timestamps' = <<>> ]_vars

\* a second cycle has just started after a cycle that sampled levels
C17_Witness ==
    /\ pc = "recording"
    /\ cycles = 2
    /\ ticks >= 1
    /\ levels = <<>>
    /\ timestamps = <<>>
    /\ minsoundlevel = MinInit
    /\ maxsoundlevel = MaxInit

\* the step enters recordday: main has computed the deadline of a new cycle
IsCycleStart == pc = "main" /\ pc' = "recording"

\* C12: a message for no recipient (an empty recipient list, or a list whose
\* only entry is the empty string) is a no-op of sendemail: nothing is sent
\* and no exception reaches the caller.
C12_NoRecipientIsNoOp ==
    [][ (Len(opts.emailto) = 0 \/ opts.emailto = <<"">>) =>
          /\ \A i \in DOMAIN sent' : sent'[i].result = "noop"
          /\ pc' # "crashed" ]_vars

\* C14: the deadline computed at the start of a cycle is now + n minutes
\* for the unit 'm', and 08:00 of the n-th day after today for the unit
\* 'd', whatever the time of day.
C14_DeadlineFormula ==
    [][ IsCycleStart =>
          /\ opts.aliveperiod[2] = "m" =>
                until' - now = opts.aliveperiod[1] * 60
          /\ opts.aliveperiod[2] = "d" =>
                /\ until' % 86400 = 8 * 3600
                /\ until' \div 86400 = (now \div 86400) + opts.aliveperiod[1]
      ]_vars

\* a second day-aligned cycle has started at or after 08:00 and its
\* deadline is 08:00 of the next day
C14_Witness ==
    /\ pc = "recording"
    /\ cycles = 2
    /\ levels = <<>>
    /\ opts.aliveperiod = <<1, "d">>
    /\ now % 86400 >= 28800
    /\ until = (now \div 86400) * 86400 + 86400 + 28800

\* C15: with a threshold <= 0 or a cool-down < 0 main ends in an error
\* before the 'monitor started' message is sent and before the first sample.
C15_InvalidConfigIsFatal ==
    (opts.threshold <= 0 \/ opts.period < 0) =>
       /\ pc \in {"start", "crashed"}
       /\ \A i \in DOMAIN sent : sent[i].result \notin {"sent", "noop"}
       /\ ticks = 0 /\ cycles = 0

\* C19 as claimed: whatever the cadence, a heartbeat is sent only by a cycle
\* that has acquired at least one sample.
C19_SampleBeforeHeartbeat ==
    [][ "daily" \in Dispatched(sent') => Len(levels) >= 1 ]_vars

\* C19 as amended: for a cadence with n >= 1 (unit 'm' or 'd'), a heartbeat
\* is sent only by a cycle that has acquired at least one sample.
C19_SampleBeforeHeartbeatPositive ==
    [][ ("daily" \in Dispatched(sent') /\ opts.aliveperiod[1] >= 1)
          => Len(levels) >= 1 ]_vars

\* the second heartbeat of a day-aligned cadence with n >= 1 has gone out,
\* after a cycle that started at or after 08:00 and sampled
C19_Witness ==
    /\ pc = "main"
    /\ heartbeats = 2
    /\ opts.aliveperiod[2] = "d"
    /\ opts.aliveperiod[1] >= 1
    /\ Dispatched(sent) = {"daily"}
    /\ Len(levels) >= 1

\* C20: for the unit 'd' with n >= 1 the deadline computed at the start of
\* a cycle is strictly later than the instant of the computation.
C20_DayDeadlineInFuture ==
    [][ (IsCycleStart /\ opts.aliveperiod[2] = "d"
           /\ opts.aliveperiod[1] >= 1) => until' > now ]_vars

\* a cycle after the first one has started exactly at 08:00, the boundary
\* at which the cycle before ended
C20_Witness ==
    /\ pc = "recording"
    /\ cycles >= 2
    /\ levels = <<>>
    /\ opts.aliveperiod[2] = "d"
    /\ opts.aliveperiod[1] >= 1
    /\ now % 86400 = 28800
    /\ until > now

\* C18: when every acquisition and delivery returns and the clock advances
\* with every tick, a cycle that is recording eventually reaches its
\* deadline, its heartbeat is then sent and a new cycle started; the
\* process has no final state and heartbeats are sent again and again.
C18_HeartbeatsForever ==
    /\ [](pc \in {"start", "main", "recording"})
    /\ (pc = "recording") ~> (pc = "recording" /\ now >= until)
    /\ (pc = "recording" /\ now >= until)
          ~> (pc = "main" /\ "daily" \in Dispatched(sent))
    /\ (pc = "main") ~> (pc = "recording" /\ levels = <<>>)
    /\ []<>("daily" \in Dispatched(sent))

\* a heartbeat has gone out at the end of a later cycle that sampled
C18_Witness ==
    /\ pc = "main"
    /\ cycles >= 2
    /\ "daily" \in Dispatched(sent)
    /\ Len(levels) >= 2

====
